---- MODULE Spec2Model ----
(***************************************************************************)
(* State-machine model of the application-submission engine of             *)
(* job-applier: run_application (scripts/apply_jobs.py) with the           *)
(* strategies it dispatches to, and the completion-service chain           *)
(* call_claude / call_agent_browser (scripts/claude_client.py).            *)
(*                                                                         *)
(* The browser page, the agent CLIs and the completion providers are the   *)
(* environment: what they answer is drawn nondeterministically at the      *)
(* point where the code reads it.  Strings that the code only passes       *)
(* through (error messages) are abstracted to tags.                        *)
(***************************************************************************)
EXTENDS Integers, Sequences, FiniteSets, TLC

VARIABLES
    pc,           \* control point of the modelled call
    job,          \* [linkedin, creds, onSite]: "linkedin.com" in apply_url; both
                  \* LINKEDIN_* set; the host of apply_url is linkedin.com
    sessionFile,  \* LINKEDIN_SESSION_FILE: "absent" | "stored" (by an earlier run) |
                  \* "saved" (written by this run)
    browser,      \* "none" | "open" | "closed"
    context,      \* "none" | "open" | "closed"
    pwStopped,    \* the sync_playwright() block has been left
    page,         \* what the current page shows (see Page)
    outcome,      \* the dict run_application returns, NoOutcome before that
    raised,       \* an exception is propagating out of run_application
    loadRet,      \* return value of _load_linkedin_cookies: "none" | "true" | "false"
    loadLog,      \* what _load_linkedin_cookies logged: "none" | "no_session" |
                  \* "valid" | "expired" | "load_failed"
    loginRet,     \* dict returned by login_to_linkedin, NoOutcome before that
    loginCount,   \* number of calls of login_to_linkedin
    loginPage,    \* what login_to_linkedin sees after the sign-in click, NoLogin outside it
    step,         \* loop variable of the Easy Apply modal loop
    touched,      \* a fill or upload was done on the current page since it last changed
    clicks,       \* submit/next clicks done by the modal loop
    lastClick,    \* last control clicked: "none" | "entry" | "submit" | "next" |
                  \* "apply" (by _extract_external_apply_url) | "form"
    tiers,        \* strategies and tiers started so far, in order
    agentIdx,     \* index in ("claude", "openclaw") of call_agent_browser's loop
    agentRuns,    \* agent CLIs actually run, in order, each with what
                  \* call_agent_browser got from it: "dict" | "nothing"
    mode,         \* call_claude chain in progress: "none" | "vision" | "text"
    provIdx,      \* next provider of the chain
    variant,      \* argument variant of _call_cli in progress (0: before _which)
    calls,        \* providers invoked by this call_claude, in order
    failed,       \* providers of this call that raised or returned None
    errors,       \* call_claude's local list `errors`
    callRet,      \* [ok, by, errors]: what call_claude returned or raised
    system,       \* call_claude was given a system instruction
    plan,         \* number of form actions still to execute
    destUrl,      \* URL handed to apply_external_form: "none" | "apply_url" |
                  \* "external" (absolute, another site) | "relative" (a path)
    timedOut,     \* the external call made by the last step ran into its timeout
    ppc,          \* control point of run_pipeline, "idle" between two runs
    dry_run,      \* argument of run_pipeline
    max_jobs_per_run,  \* config.max_jobs_per_run
    runs,         \* number of calls of run_pipeline so far
    ranDates,     \* ran_dates.txt holds today's date
    scrapeOk,     \* run_scraper of this run got its list from the scraper (no error)
    lastExit,     \* how the last run_pipeline ended (see Exits)
    jobs,         \* list returned by run_scraper: job_ids, in order
    new_jobs,     \* jobs that passed the already-seen filter
    jobIdx,       \* position of `for job in new_jobs`
    processed,    \* local counter of run_pipeline
    passed,       \* job_ids that reached the score threshold in this run
    apply_result, \* dict returned by run_application for the job at jobIdx
    scoreCalls,   \* job_id -> number of calls of score_job, over all runs
    applyCalls,   \* job_id -> number of calls of run_application, over all runs
    runBase,      \* tracker rows and run_application calls when the current run began
    tracker,      \* rows of jobs_tracker.xlsx below the header, in order
    fallbacks,    \* timestamped fallback workbooks, newest first, each a list of rows
    added,        \* job_ids passed to add_job since init_tracker
    updRet,       \* last call of update_status: [job_id, ret], NoUpdate before it
    dom,          \* what the page holds for the label given to find_by_label (see Doms)
    value,        \* the value given to _fill_field
    foundLoc,     \* what find_by_label returned, NotCalled before the call
    fillRet,      \* what _fill_field returned: "none" before the call | "true" | "false"
    fieldSet      \* what _fill_field did to the field: "nothing" | "filled" |
                  \* [option |-> k] for the k-th option of a select

vars == << pc, job, sessionFile, browser, context, pwStopped, page, outcome, raised,
           loadRet, loadLog, loginRet, loginCount, loginPage, step, touched, clicks, lastClick, tiers,
           agentIdx, agentRuns, mode, provIdx, variant, calls, failed, errors,
           callRet, system, plan, destUrl, timedOut,
           ppc, dry_run, max_jobs_per_run, runs, ranDates, scrapeOk, lastExit, jobs,
           new_jobs, jobIdx, processed, passed, apply_result, scoreCalls, applyCalls,
           runBase, tracker, fallbacks, added, updRet,
           dom, value, foundLoc, fillRet, fieldSet >>

runVars   == << job, sessionFile, browser, context, pwStopped, page, outcome, raised,
                loadRet, loadLog, loginRet, loginCount, loginPage, step, touched, clicks, lastClick, tiers,
                agentIdx, agentRuns, plan, destUrl >>
chainVars == << mode, provIdx, variant, calls, failed, errors, callRet, system >>
trackerVars == << tracker, fallbacks, added, updRet >>
pipeVars  == << ppc, dry_run, max_jobs_per_run, runs, ranDates, scrapeOk, lastExit, jobs,
                new_jobs, jobIdx, processed, passed, apply_result, scoreCalls, applyCalls,
                runBase >>
engineVars == << pc, runVars, chainVars, timedOut >>
toolVars  == << dom, value, foundLoc, fillRet, fieldSet >>

-----------------------------------------------------------------------------
(* Bounds and program constants *)

\* longest action plan a vision provider returns in the model
MaxPlan == 2

\* for step in range(10)
MaxSteps == 10

\* longest list run_scraper returns in the model
MaxScrape == 2

\* calls of run_pipeline in one behaviour
MaxRuns == 2

\* rows add_job appends when the tracker is driven on its own
MaxRows == 2

\* fallback workbooks that come to exist in the model
MaxFallbacks == 1

\* label elements whose text holds the phrase
MaxLabels == 2

\* elements one CSS strategy of find_by_label matches
MaxHits == 2

\* options of a select element
MaxOptions == 2

-----------------------------------------------------------------------------
(* Data *)

NoOutcome == [absent |-> TRUE]

\* a dict with the keys success, method, reason, error
Outcome(s, m, r, e) == [success |-> s, method |-> m, reason |-> r, error |-> e]

\* a dict with the keys success, method, error (no "reason" key)
OutcomeNoReason(s, m, e) == [success |-> s, method |-> m, error |-> e]

\* what the code can observe on a page
Page(c, a, en, su, nx, ok, mo) ==
    [captcha |-> c, authWall |-> a, entry |-> en, submit |-> su, next |-> nx,
     success |-> ok, modal |-> mo]

BlankPage == Page(FALSE, FALSE, FALSE, FALSE, FALSE, FALSE, FALSE)

\* a page just navigated to: challenge text, sign-in wall, Easy Apply button
LandingPages ==
    { Page(c, a, en, FALSE, FALSE, FALSE, FALSE) : c \in BOOLEAN, a \in BOOLEAN, en \in BOOLEAN }

\* the page after a click that is followed by a new look at the modal
ModalPages ==
    { Page(c, FALSE, FALSE, su, nx, FALSE, TRUE) : c \in BOOLEAN, su \in BOOLEAN, nx \in BOOLEAN }

\* the page after a submit click: confirmation text, modal container, next controls
AfterSubmitPages ==
    { Page(c, FALSE, FALSE, su, nx, ok, mo) :
        c \in BOOLEAN, su \in BOOLEAN, nx \in BOOLEAN, ok \in BOOLEAN, mo \in BOOLEAN }

\* the page after the clicks of the generic-form strategy
AfterFormPages ==
    { Page(c, FALSE, FALSE, FALSE, FALSE, ok, FALSE) : c \in BOOLEAN, ok \in BOOLEAN }

VisionChain == << "Anthropic SDK", "Gemini API", "GitHub Copilot" >>
TextChain   == << "claude CLI", "openclaw CLI", "Anthropic SDK" >>
AgentClis   == << "claude", "openclaw" >>

NoCall == [ok |-> FALSE, by |-> "none", errors |-> << >>]

\* login_to_linkedin is not looking at a page
NoLogin == [absent |-> TRUE]

\* current_url, error_el.count() > 0 and the nav marker, as login_to_linkedin reads them
LoginPages ==
    [url : {"checkpoint", "feed", "other"}, errorEl : BOOLEAN, marker : BOOLEAN]

\* job_ids the scraper can return
Ids == {"j1", "j2"}

\* update_excel.py: the valid statuses
STATUS_PENDING == "pending"
STATUS_APPLIED == "applied"
STATUS_FAILED  == "failed"
STATUS_SKIPPED == "skipped"
STATUS_MANUAL  == "manual_required"

\* the columns of a tracker row that the pipeline reads or writes
Row(id, status, at, notes) ==
    [job_id |-> id, status |-> status, applied_at |-> at, notes |-> notes]

NoUpdate == [absent |-> TRUE]

\* the ways run_pipeline ends; the last three call mark_ran_today
Exits == {"none", "already_ran", "no_resume", "no_profile", "crash",
          "no_jobs", "no_new_jobs", "complete"}

\* no run_pipeline in progress, a tracker with its header row only
NoRunYet ==
    /\ ppc = "idle" /\ dry_run = FALSE /\ runs = 0
    /\ ranDates = FALSE /\ scrapeOk = FALSE /\ lastExit = "none"
    /\ jobs = << >> /\ new_jobs = << >> /\ jobIdx = 1 /\ processed = 0 /\ passed = {}
    /\ apply_result = NoOutcome
    /\ scoreCalls = [i \in Ids |-> 0] /\ applyCalls = [i \in Ids |-> 0]
    /\ runBase = [rows |-> 0, applies |-> 0]
    /\ tracker = << >> /\ fallbacks = << >> /\ added = {} /\ updRet = NoUpdate

\* the five strategies of find_by_label, in the order of the list
Strategies_idFirst == << "id", "name", "aria_label", "placeholder", "label" >>

Strategies == << "label", "placeholder", "aria_label", "name", "id" >>

CssStrategies == {"placeholder", "aria_label", "name", "id"}

\* a matching label element: without a `for` attribute, with one that names
\* no element, with one that names an input
LabelKinds == {"no_for", "dangling", "input"}

\* the page as find_by_label sees it for one label text: the matching label
\* elements in document order, the number of elements each CSS selector
\* matches, and the strategy (at most one) whose locator calls raise
Doms ==
    [labels : UNION { [1..n -> LabelKinds] : n \in 0..MaxLabels },
     hits   : [CssStrategies -> 0..MaxHits],
     faults : {{}} \cup { {s} : s \in CssStrategies \cup {"label"} }]

\* a Locator: the k-th element of what the strategy matched
Handle(s, k) == [strategy |-> s, index |-> k]

\* None
NoHandle == [absent |-> TRUE]

NotCalled == [called |-> FALSE]

\* neither helper called
ToolIdle ==
    /\ dom = [labels |-> << >>, hits |-> [s \in CssStrategies |-> 0], faults |-> {}]
    /\ value = "" /\ foundLoc = NotCalled /\ fillRet = "none" /\ fieldSet = "nothing"

PipelineIdle == NoRunYet /\ max_jobs_per_run = 1 /\ ToolIdle

-----------------------------------------------------------------------------
(* Detectors and decisions of apply_jobs.py *)

\* any(pattern in text for pattern in CAPTCHA_PATTERNS)
_detect_captcha(p) == p.captcha

\* any of LINKEDIN_AUTH_WALL_SELECTORS is present
_detect_linkedin_auth_wall(p) == p.authWall

\* a bug: only the confirmation text counts
EasyApplyConfirmed_phraseOnly(p) == p.success

\* a bug: every submit click counts as confirmed
EasyApplyConfirmed_always(p) == TRUE

\* the confirmation test after a submit click of the modal loop
EasyApplyConfirmed(p) == p.success \/ ~p.modal

\* a bug: login whatever the session load returned
LoginNeeded_always(loaded) == TRUE

\* if not _load_linkedin_cookies(context, page): login
LoginNeeded(loaded) == loaded = "false"

\* a bug: every login failure is logged and the run goes on
StopsOnLogin_never(r) == FALSE

\* a bug: every failed login stops run_application
StopsOnLogin_anyFailure(r) == ~r.success

\* reason == "2fa_required" stops run_application
StopsOnLogin(r) == ~r.success /\ r.reason = "2fa_required"

-----------------------------------------------------------------------------
(* Initial states *)

\* run_application is entered for one job; the session file is there or not
Init ==
    /\ pc = "launch"
    /\ job \in { j \in [linkedin : BOOLEAN, creds : BOOLEAN, onSite : BOOLEAN] :
                    j.onSite => j.linkedin }
    /\ sessionFile \in {"absent", "stored"}
    /\ browser = "none" /\ context = "none" /\ pwStopped = FALSE
    /\ page = BlankPage
    /\ outcome = NoOutcome /\ raised = FALSE
    /\ loadRet = "none" /\ loadLog = "none" /\ loginRet = NoOutcome /\ loginCount = 0 /\ loginPage = NoLogin
    /\ step = 0 /\ touched = FALSE /\ clicks = 0 /\ lastClick = "none"
    /\ tiers = << >> /\ agentIdx = 1 /\ agentRuns = << >>
    /\ mode = "none" /\ provIdx = 1 /\ variant = 0 /\ system = FALSE
    /\ calls = << >> /\ failed = {} /\ errors = << >> /\ callRet = NoCall
    /\ plan = 0 /\ destUrl = "none" /\ timedOut = FALSE
    /\ PipelineIdle

-----------------------------------------------------------------------------
(* run_application: browser set-up, before the try block *)

\* an exception leaves run_application through the with block
Escape ==
    /\ raised' = TRUE
    /\ pc' = "with_exit"

\* pw.chromium.launch(...)
launch ==
    /\ pc = "launch"
    /\ \/ /\ browser' = "open"
          /\ pc' = "new_context"
          /\ UNCHANGED raised
       \/ /\ Escape
          /\ UNCHANGED browser
    /\ UNCHANGED << job, sessionFile, context, pwStopped, page, outcome, loadRet, loadLog, loginRet,
                    loginCount, loginPage, step, touched, clicks, lastClick, tiers, agentIdx,
                    agentRuns, plan, destUrl >>
    /\ UNCHANGED chainVars
    /\ timedOut' = FALSE
    /\ UNCHANGED << pipeVars, trackerVars, toolVars >>

\* browser.new_context(...)
new_context ==
    /\ pc = "new_context"
    /\ \/ /\ context' = "open"
          /\ pc' = "new_page"
          /\ UNCHANGED raised
       \/ /\ Escape
          /\ UNCHANGED context
    /\ UNCHANGED << job, sessionFile, browser, pwStopped, page, outcome, loadRet, loadLog, loginRet,
                    loginCount, loginPage, step, touched, clicks, lastClick, tiers, agentIdx,
                    agentRuns, plan, destUrl >>
    /\ UNCHANGED chainVars
    /\ timedOut' = FALSE
    /\ UNCHANGED << pipeVars, trackerVars, toolVars >>

\* context.new_page(); page.add_init_script(STEALTH_SCRIPT)
new_page ==
    /\ pc = "new_page"
    /\ \/ /\ pc' = "try"
          /\ UNCHANGED raised
       \/ Escape
    /\ UNCHANGED << job, sessionFile, browser, context, pwStopped, page, outcome, loadRet, loadLog,
                     loginRet, loginCount, loginPage, step, touched, clicks, lastClick, tiers,
                    agentIdx, agentRuns, plan, destUrl >>
    /\ UNCHANGED chainVars
    /\ timedOut' = FALSE
    /\ UNCHANGED << pipeVars, trackerVars, toolVars >>

-----------------------------------------------------------------------------
(* run_application: the try block up to the strategies *)

\* the branch on "linkedin.com" in apply_url and on the two credentials
try_enter ==
    /\ pc = "try"
    /\ \/ /\ job.linkedin /\ job.creds
          /\ pc' = "load"
          /\ UNCHANGED << tiers, destUrl >>
       \/ /\ job.linkedin /\ ~job.creds
          /\ pc' = "easy_goto"
          /\ tiers' = Append(tiers, "easy_apply")
          /\ UNCHANGED destUrl
       \/ /\ ~job.linkedin
          /\ pc' = "agent"
          /\ tiers' = Append(tiers, "agent")
          /\ destUrl' = "apply_url"
    /\ UNCHANGED << job, sessionFile, browser, context, pwStopped, page, outcome, raised,
                    loadRet, loadLog, loginRet, loginCount, loginPage, step, touched, clicks, lastClick,
                    agentIdx, agentRuns, plan >>
    /\ UNCHANGED chainVars
    /\ timedOut' = FALSE
    /\ UNCHANGED << pipeVars, trackerVars, toolVars >>

\* the check of a restored session on the feed page: the nav marker, else the
\* URL ("/feed" in it and no "login"); an exception anywhere counts as failed
SessionCheck(marker, feedUrl, fault) ==
    IF fault THEN "load_failed"
    ELSE IF marker THEN "valid"
    ELSE IF feedUrl THEN "valid_url"
    ELSE "expired"

\* the two ways _load_linkedin_cookies returns True
SessionValid(log) == log \in {"valid", "valid_url"}

\* a bug: the file is removed for an expired session only
LoadDeletes_expired_only(log) == log = "expired"

\* LINKEDIN_SESSION_FILE.unlink(missing_ok=True) on both ways out that
\* follow a failed check
LoadDeletes(log) == log \in {"expired", "load_failed"}

\* _load_linkedin_cookies: True only for a session the feed page confirms;
\* every other way out removes the file
_load_linkedin_cookies ==
    /\ pc = "load"
    /\ \/ /\ sessionFile = "absent"
          /\ loadRet' = "false"
          /\ loadLog' = "no_session"
          /\ pc' = "load_ret"
          /\ timedOut' = FALSE
          /\ UNCHANGED << sessionFile, page >>
       \/ /\ sessionFile # "absent"
          /\ page' = BlankPage
          /\ \E marker \in BOOLEAN, feedUrl \in BOOLEAN, fault \in BOOLEAN,
                gotoTimeout \in BOOLEAN, unlinked \in BOOLEAN :
                /\ gotoTimeout => fault
                /\ timedOut' = gotoTimeout
                /\ loadLog' = SessionCheck(marker, feedUrl, fault)
                /\ IF SessionValid(loadLog')
                   THEN /\ loadRet' = "true"
                        /\ pc' = "load_ret"
                        /\ unlinked
                        /\ UNCHANGED sessionFile
                   ELSE IF ~LoadDeletes(loadLog')
                   THEN /\ loadRet' = "false"
                        /\ pc' = "load_ret"
                        /\ unlinked
                        /\ UNCHANGED sessionFile
                   ELSE IF unlinked
                   THEN /\ loadRet' = "false"
                        /\ pc' = "load_ret"
                        /\ sessionFile' = "absent"
                   ELSE /\ pc' = "except"      \* unlink raises in the handler
                        /\ UNCHANGED << loadRet, sessionFile >>
    /\ UNCHANGED << job, browser, context, pwStopped, outcome, raised, loginRet, loginCount,
                    loginPage, step, touched, clicks, lastClick, tiers, agentIdx, agentRuns, plan,
                    destUrl >>
    /\ UNCHANGED chainVars
    /\ UNCHANGED << pipeVars, trackerVars, toolVars >>

\* if not _load_linkedin_cookies(context, page): login_to_linkedin(...)
after_load ==
    /\ pc = "load_ret"
    /\ IF LoginNeeded(loadRet)
       THEN pc' = "login" /\ UNCHANGED tiers
       ELSE pc' = "easy_goto" /\ tiers' = Append(tiers, "easy_apply")
    /\ UNCHANGED << job, sessionFile, browser, context, pwStopped, page, outcome, raised,
                    loadRet, loadLog, loginRet, loginCount, loginPage, step, touched, clicks, lastClick,
                    agentIdx, agentRuns, plan, destUrl >>
    /\ UNCHANGED chainVars
    /\ timedOut' = FALSE
    /\ UNCHANGED << pipeVars, trackerVars, toolVars >>

\* a bug: the credential-error element is looked for before the URL
LoginClassify_errorFirst(url, errorEl, marker) ==
    IF errorEl
    THEN [success |-> FALSE, reason |-> "wrong_credentials", error |-> "login_failed"]
    ELSE IF url = "checkpoint"
    THEN [success |-> FALSE, reason |-> "2fa_required", error |-> "2fa"]
    ELSE [success |-> TRUE]

\* the classification of the page reached after the sign-in click: url is
\* "checkpoint" when current_url holds "checkpoint" or "challenge", "feed" when
\* it holds "feed" or "mynetwork"; both success branches return the same dict
LoginClassify(url, errorEl, marker) ==
    IF url = "checkpoint"
    THEN [success |-> FALSE, reason |-> "2fa_required", error |-> "2fa"]
    ELSE IF errorEl
    THEN [success |-> FALSE, reason |-> "wrong_credentials", error |-> "login_failed"]
    ELSE [success |-> TRUE]

\* a bug: the cookies are saved whatever the classification
SavesSession_always(r) == TRUE

\* _save_linkedin_cookies(context) stands before both `return {"success": True}`
\* and nowhere else
SavesSession(r) == r.success

\* login_to_linkedin: goto is outside its try; everything after it is inside
login_to_linkedin ==
    /\ pc = "login"
    /\ loginCount' = loginCount + 1
    /\ page' = BlankPage
    /\ \/ /\ pc' = "except"                 \* page.goto raises, outside the try
          /\ timedOut' \in BOOLEAN
          /\ UNCHANGED << loginRet, loginPage, sessionFile >>
       \/ /\ pc' = "login_ret"
          /\ timedOut' = FALSE
          /\ \E seen \in LoginPages, fault \in BOOLEAN :
                /\ loginPage' = [url |-> seen.url, errorEl |-> seen.errorEl,
                                 marker |-> seen.marker, fault |-> fault]
                /\ IF fault
                   THEN /\ loginRet' = [success |-> FALSE, reason |-> "login_error",
                                        error |-> "exception"]
                        /\ UNCHANGED sessionFile
                   ELSE /\ loginRet' = LoginClassify(seen.url, seen.errorEl, seen.marker)
                        /\ sessionFile' = IF SavesSession(loginRet') THEN "saved"
                                          ELSE sessionFile
    /\ UNCHANGED << job, browser, context, pwStopped, outcome, raised, loadRet, loadLog, step,
                    touched, clicks, lastClick, tiers, agentIdx, agentRuns, plan,
                    destUrl >>
    /\ UNCHANGED chainVars
    /\ UNCHANGED << pipeVars, trackerVars, toolVars >>

\* if not login_result["success"]: return on 2fa_required, else log and go on
after_login ==
    /\ pc = "login_ret"
    /\ IF StopsOnLogin(loginRet)
       THEN /\ outcome' = Outcome(FALSE, "linkedin", "2fa_required", loginRet.error)
            /\ pc' = "finally"
            /\ UNCHANGED tiers
       ELSE /\ pc' = "easy_goto"
            /\ tiers' = Append(tiers, "easy_apply")
            /\ UNCHANGED outcome
    /\ loginPage' = NoLogin
    /\ UNCHANGED << job, sessionFile, browser, context, pwStopped, page, raised, loadRet, loadLog,
                    loginRet, loginCount, step, touched, clicks, lastClick, agentIdx,
                    agentRuns, plan, destUrl >>
    /\ UNCHANGED chainVars
    /\ timedOut' = FALSE
    /\ UNCHANGED << pipeVars, trackerVars, toolVars >>

-----------------------------------------------------------------------------
(* apply_linkedin_easy_apply *)

\* page.goto(job_url, ...) and the delay after it
easy_goto ==
    /\ pc = "easy_goto"
    /\ \/ /\ pc' = "except"
          /\ timedOut' \in BOOLEAN
          /\ UNCHANGED << page, touched >>
       \/ /\ page' \in LandingPages
          /\ touched' = FALSE
          /\ pc' = "easy_entry"
          /\ timedOut' = FALSE
    /\ UNCHANGED << job, sessionFile, browser, context, pwStopped, outcome, raised, loadRet, loadLog,
                     loginRet, loginCount, loginPage, step, clicks, lastClick, tiers, agentIdx,
                    agentRuns, plan, destUrl >>
    /\ UNCHANGED chainVars
    /\ UNCHANGED << pipeVars, trackerVars, toolVars >>

\* a bug: the sign-in wall is looked for before the challenge
EntryVerdict_authFirst(p) ==
    IF _detect_linkedin_auth_wall(p) THEN "linkedin_auth_required"
    ELSE IF _detect_captcha(p) THEN "captcha_detected"
    ELSE IF ~p.entry THEN "no_easy_apply"
    ELSE "enter"

\* the three checks on the job page, in the order of the code
EntryVerdict(p) ==
    IF _detect_captcha(p) THEN "captcha_detected"
    ELSE IF _detect_linkedin_auth_wall(p) THEN "linkedin_auth_required"
    ELSE IF ~p.entry THEN "no_easy_apply"
    ELSE "enter"

\* the error text that goes with a reason of apply_linkedin_easy_apply
EasyError(reason) ==
    CASE reason = "captcha_detected"       -> "captcha"
      [] reason = "linkedin_auth_required" -> "auth_wall"
      [] reason = "modal_stuck"            -> "modal_stuck"
      [] OTHER                             -> "None"

\* challenge, sign-in wall, Easy Apply button; then the click that opens the modal
easy_entry ==
    /\ pc = "easy_entry"
    /\ \/ /\ EntryVerdict(page) # "enter"
          /\ outcome' = Outcome(FALSE, "easy_apply", EntryVerdict(page),
                                EasyError(EntryVerdict(page)))
          /\ pc' = "easy_ret"
          /\ UNCHANGED << page, lastClick, step >>
       \/ /\ EntryVerdict(page) = "enter"
          /\ \/ /\ pc' = "except"
                /\ UNCHANGED << page, lastClick, step >>
             \/ /\ page' \in ModalPages
                /\ lastClick' = "entry"
                /\ step' = 0
                /\ pc' = "loop"
          /\ UNCHANGED outcome
    /\ UNCHANGED << job, sessionFile, browser, context, pwStopped, raised, loadRet, loadLog,
                     loginRet, loginCount, loginPage, touched, clicks, tiers, agentIdx, agentRuns,
                    plan, destUrl >>
    /\ UNCHANGED chainVars
    /\ timedOut' = FALSE
    /\ UNCHANGED << pipeVars, trackerVars, toolVars >>

\* a bug: one iteration too many
LoopExhausted_late(s) == s > MaxSteps

\* a bug: one iteration too few
LoopExhausted_early(s) == s >= MaxSteps - 1

\* range(10) has no further value for the loop variable
LoopExhausted(s) == s >= MaxSteps

\* for step in range(10): the challenge check that opens every iteration,
\* and the return after the loop
loop_head ==
    /\ pc = "loop"
    /\ IF LoopExhausted(step)
       THEN /\ outcome' = Outcome(FALSE, "easy_apply", "modal_stuck", "modal_stuck")
            /\ pc' = "easy_ret"
       ELSE IF _detect_captcha(page)
       THEN /\ outcome' = Outcome(FALSE, "easy_apply", "captcha_detected", "captcha")
            /\ pc' = "easy_ret"
       ELSE /\ pc' = "loop_fill"
            /\ UNCHANGED outcome
    /\ UNCHANGED << job, sessionFile, browser, context, pwStopped, page, raised, loadRet, loadLog,
                     loginRet, loginCount, loginPage, step, touched, clicks, lastClick, tiers,
                    agentIdx, agentRuns, plan, destUrl >>
    /\ UNCHANGED chainVars
    /\ timedOut' = FALSE
    /\ UNCHANGED << pipeVars, trackerVars, toolVars >>

\* the resume upload when a file input is there, then _fill_form_from_profile
loop_fill ==
    /\ pc = "loop_fill"
    /\ \/ /\ pc' = "except"
          /\ UNCHANGED touched
       \/ /\ pc' = "loop_buttons"
          /\ \E fileInput \in BOOLEAN, filled \in BOOLEAN :
                touched' = (touched \/ fileInput \/ filled)
    /\ UNCHANGED << job, sessionFile, browser, context, pwStopped, page, outcome, raised,
                    loadRet, loadLog, loginRet, loginCount, loginPage, step, clicks, lastClick, tiers,
                    agentIdx, agentRuns, plan, destUrl >>
    /\ UNCHANGED chainVars
    /\ timedOut' = FALSE
    /\ UNCHANGED << pipeVars, trackerVars, toolVars >>

\* a bug: the continue/next control is looked at first
ControlChosen_nextFirst(p) ==
    IF p.next THEN "next" ELSE IF p.submit THEN "submit" ELSE "none"

\* the control the iteration clicks: submit before next, "none" for the break
ControlChosen(p) ==
    IF p.submit THEN "submit" ELSE IF p.next THEN "next" ELSE "none"

\* the rest of an iteration: click submit and look for the confirmation,
\* or click next, or break
loop_buttons ==
    /\ pc = "loop_buttons"
    /\ \/ /\ ControlChosen(page) = "submit"
          /\ \/ /\ pc' = "except"
                /\ UNCHANGED << page, clicks, lastClick, touched, step, outcome >>
             \/ /\ page' \in AfterSubmitPages
                /\ clicks' = clicks + 1
                /\ lastClick' = "submit"
                /\ touched' = FALSE
                /\ IF EasyApplyConfirmed(page')
                   THEN /\ outcome' = Outcome(TRUE, "easy_apply", "None", "None")
                        /\ pc' = "easy_ret"
                        /\ UNCHANGED step
                   ELSE /\ step' = step + 1
                        /\ pc' = "loop"
                        /\ UNCHANGED outcome
       \/ /\ ControlChosen(page) = "next"
          /\ \/ /\ pc' = "except"
                /\ UNCHANGED << page, clicks, lastClick, touched, step >>
             \/ /\ page' \in ModalPages
                /\ clicks' = clicks + 1
                /\ lastClick' = "next"
                /\ touched' = FALSE
                /\ step' = step + 1
                /\ pc' = "loop"
          /\ UNCHANGED outcome
       \/ /\ ControlChosen(page) = "none"
          /\ outcome' = Outcome(FALSE, "easy_apply", "modal_stuck", "modal_stuck")
          /\ pc' = "easy_ret"
          /\ UNCHANGED << page, clicks, lastClick, touched, step >>
    /\ UNCHANGED << job, sessionFile, browser, context, pwStopped, raised, loadRet, loadLog,
                     loginRet, loginCount, loginPage, tiers, agentIdx, agentRuns, plan, destUrl >>
    /\ UNCHANGED chainVars
    /\ timedOut' = FALSE
    /\ UNCHANGED << pipeVars, trackerVars, toolVars >>

\* _extract_external_apply_url(page) or apply_url.  found is what the
\* extraction returns: "href", an absolute href of another site; "relative",
\* an href that is a path such as /jobs/apply/..., which has no
\* "linkedin.com" in it; "popup", the URL of the popup; "none" when every
\* href and popup URL is empty or holds "linkedin.com"
ExternalUrl(found) ==
    IF found = "none" THEN "apply_url"
    ELSE IF found = "relative" THEN "relative"
    ELSE "external"

\* a bug: every failure of the guided apply goes on to the generic form
FallsThrough_onFailure(r) == ~r.success

\* if result.get("reason") == "no_easy_apply"
FallsThrough(r) == "reason" \in DOMAIN r /\ r.reason = "no_easy_apply"

\* run_application after apply_linkedin_easy_apply: on no_easy_apply,
\* _extract_external_apply_url(page) or apply_url, then apply_external_form
after_easy ==
    /\ pc = "easy_ret"
    /\ IF FallsThrough(outcome)
       THEN /\ \E found \in {"href", "relative", "popup", "none"}, clicked \in BOOLEAN :
                 /\ (found = "popup" => clicked) /\ (found \in {"href", "relative"} => ~clicked)
                 /\ destUrl' = ExternalUrl(found)
                 /\ lastClick' = IF clicked THEN "apply" ELSE lastClick
            /\ tiers' = Append(tiers, "agent")
            /\ pc' = "agent"
       ELSE /\ pc' = "finally"
            /\ UNCHANGED << destUrl, tiers, lastClick >>
    /\ UNCHANGED << job, sessionFile, browser, context, pwStopped, page, outcome, raised,
                    loadRet, loadLog, loginRet, loginCount, loginPage, step, touched, clicks,
                    agentIdx, agentRuns, plan >>
    /\ UNCHANGED chainVars
    /\ timedOut' = FALSE
    /\ UNCHANGED << pipeVars, trackerVars, toolVars >>

-----------------------------------------------------------------------------
(* call_agent_browser (claude_client.py), called first by apply_external_form *)

\* What one run of an agent CLI leads to.  r is what the subprocess did:
\*   "timeout"       subprocess.TimeoutExpired
\*   "exception"     any other exception of subprocess.run
\*   "json"          the output holds a flat {... "success" ...} object: json.loads
\*                   is then called, but claude_client.py never imports json at
\*                   module level, so NameError is raised and caught: continue
\*   "text_success"  no such object, and one of the last five lines holds
\*                   "success" and "true"
\*   "nonzero"       neither, and a non-zero exit code
\*   "no_result"     neither, and exit code 0
AgentVerdict(r) ==
    CASE r = "timeout"      -> OutcomeNoReason(FALSE, "agent_browser", "agent_timeout")
      [] r = "text_success" -> OutcomeNoReason(TRUE, "agent_browser", "None")
      [] r = "no_result"    -> OutcomeNoReason(FALSE, "agent_browser", "agent_no_result")
      [] OTHER              -> NoOutcome

AgentResults == {"timeout", "exception", "json", "text_success", "nonzero", "no_result"}

\* a bug: the agent's dict is dropped and the vision tier goes on
AgentHandled_never(r) == FALSE

\* if agent_result is not None: return agent_result
AgentHandled(r) == r # NoOutcome

\* one turn of `for cli in ("claude", "openclaw")`, and the return None after it;
\* apply_external_form returns the agent's dict when there is one
call_agent_browser ==
    /\ pc = "agent"
    /\ \/ /\ agentIdx = 1                    \* the task text cannot be built:
          /\ pc' = "except"                  \* full_name.split()[0] of a blank name
          /\ timedOut' = FALSE
          /\ UNCHANGED << agentIdx, agentRuns, outcome >>
       \/ /\ agentIdx > Len(AgentClis)
          /\ pc' = "ext_goto"
          /\ timedOut' = FALSE
          /\ UNCHANGED << agentIdx, agentRuns, outcome >>
       \/ /\ agentIdx <= Len(AgentClis)      \* _which(cli) finds nothing
          /\ agentIdx' = agentIdx + 1
          /\ timedOut' = FALSE
          /\ UNCHANGED << pc, agentRuns, outcome >>
       \/ /\ agentIdx <= Len(AgentClis)      \* _which(cli) finds the CLI
          /\ \E r \in AgentResults :
                /\ timedOut' = (r = "timeout")
                /\ agentRuns' = Append(agentRuns,
                        [cli |-> AgentClis[agentIdx],
                         gave |-> IF AgentVerdict(r) = NoOutcome THEN "nothing" ELSE "dict"])
                /\ IF AgentHandled(AgentVerdict(r))
                   THEN /\ outcome' = AgentVerdict(r)
                        /\ pc' = "finally"
                        /\ UNCHANGED agentIdx
                   ELSE /\ agentIdx' = agentIdx + 1
                        /\ UNCHANGED << pc, outcome >>
    /\ UNCHANGED << job, sessionFile, browser, context, pwStopped, page, raised, loadRet, loadLog,
                     loginRet, loginCount, loginPage, step, touched, clicks, lastClick, tiers, plan,
                    destUrl >>
    /\ UNCHANGED chainVars
    /\ UNCHANGED << pipeVars, trackerVars, toolVars >>

-----------------------------------------------------------------------------
(* apply_external_form: the vision tier up to the call of call_claude *)

\* a form page just navigated to: challenge text, sign-in wall, confirmation text
FormPages ==
    { Page(c, a, FALSE, FALSE, FALSE, ok, FALSE) : c \in BOOLEAN, a \in BOOLEAN, ok \in BOOLEAN }

\* page.goto(apply_url, ...); a path is no URL the browser can navigate to
ext_goto ==
    /\ pc = "ext_goto"
    /\ tiers' = Append(tiers, "vision")
    /\ \/ /\ pc' = "except"
          /\ timedOut' \in (IF destUrl = "relative" THEN {FALSE} ELSE BOOLEAN)
          /\ UNCHANGED << page, touched >>
       \/ /\ destUrl # "relative"
          /\ page' \in FormPages
          /\ touched' = FALSE
          /\ pc' = "ext_checks"
          /\ timedOut' = FALSE
    /\ UNCHANGED << job, sessionFile, browser, context, pwStopped, outcome, raised, loadRet, loadLog,
                     loginRet, loginCount, loginPage, step, clicks, lastClick, agentIdx, agentRuns,
                    plan, destUrl >>
    /\ UNCHANGED chainVars
    /\ UNCHANGED << pipeVars, trackerVars, toolVars >>

\* the dict apply_external_form returns right after navigation, NoOutcome to go on
FormEntryVerdict(p) ==
    IF _detect_captcha(p)
    THEN OutcomeNoReason(FALSE, "external_form", "captcha")
    ELSE IF _detect_linkedin_auth_wall(p)
    THEN Outcome(FALSE, "external_form", "linkedin_auth_required", "auth_wall")
    ELSE NoOutcome

\* challenge and sign-in wall checks, scroll, screenshot, then call_claude(image)
ext_checks ==
    /\ pc = "ext_checks"
    /\ \/ /\ FormEntryVerdict(page) # NoOutcome
          /\ outcome' = FormEntryVerdict(page)
          /\ pc' = "finally"
          /\ UNCHANGED chainVars
       \/ /\ FormEntryVerdict(page) = NoOutcome
          /\ \/ /\ pc' = "except"
                /\ UNCHANGED chainVars
             \/ /\ pc' = "vision_call"
                /\ mode' = "vision"
                /\ provIdx' = 1
                /\ system' = TRUE
                /\ UNCHANGED << variant, calls, failed, errors, callRet >>
          /\ UNCHANGED outcome
    /\ UNCHANGED << job, sessionFile, browser, context, pwStopped, page, raised, loadRet, loadLog,
                     loginRet, loginCount, loginPage, step, touched, clicks, lastClick, tiers,
                    agentIdx, agentRuns, plan, destUrl >>
    /\ timedOut' = FALSE
    /\ UNCHANGED << pipeVars, trackerVars, toolVars >>

-----------------------------------------------------------------------------
(* call_claude (claude_client.py) *)

\* what a provider function does: return a text, or raise because its
\* credential is not set, because the service failed, or because it timed out
ProviderResults == {"ok", "key_not_set", "api_error", "timeout"}

\* a bug: the loop goes on after a provider returned
ChainReturns_never(ok) == FALSE

\* the loop over the providers is left at the first provider that returns
ChainReturns(ok) == ok

\* one turn of the loop over the vision providers; after the last failure
\* the RuntimeError that lists `errors`
call_vision_provider ==
    /\ pc = "vision_call"
    /\ mode = "vision"
    /\ provIdx <= Len(VisionChain)
    /\ LET name == VisionChain[provIdx] IN
       /\ calls' = Append(calls, name)
       /\ \E r \in ProviderResults :
            LET ok == r = "ok" IN
            /\ timedOut' = (r = "timeout")
            /\ IF ChainReturns(ok)
               THEN /\ callRet' = [ok |-> TRUE, by |-> name, errors |-> << >>]
                    /\ pc' = "call_ret"
                    /\ UNCHANGED << provIdx, failed, errors >>
               ELSE /\ provIdx' = provIdx + 1
                    /\ failed' = IF ok THEN failed ELSE failed \cup {name}
                    /\ errors' = IF ok THEN errors ELSE Append(errors, << name, r >>)
                    /\ IF provIdx' > Len(VisionChain)
                       THEN /\ callRet' = [ok |-> FALSE, by |-> "none", errors |-> errors']
                            /\ pc' = "call_ret"
                       ELSE UNCHANGED << callRet, pc >>
    /\ UNCHANGED << mode, variant, system >>
    /\ UNCHANGED runVars
    /\ UNCHANGED << pipeVars, trackerVars, toolVars >>

\* what one subprocess.run of _call_cli can do: print a text with exit code 0,
\* print nothing or exit non-zero, time out, or raise otherwise
CliResults == {"text", "empty_or_nonzero", "timeout", "exception"}

\* a bug: a run that timed out is taken for a response
CliUsable_lenient(r) == r \in {"text", "timeout"}

\* if result.returncode == 0 and result.stdout.strip(): return it
CliUsable(r) == r = "text"

\* _call_via_claude_cli / _call_via_openclaw_cli: _which, and None when it finds nothing
call_text_cli ==
    /\ pc = "text_call"
    /\ mode = "text"
    /\ provIdx <= 2
    /\ variant = 0
    /\ calls' = Append(calls, TextChain[provIdx])
    /\ \/ /\ variant' = 1                    \* _which(command) finds the CLI
          /\ UNCHANGED << provIdx, failed >>
       \/ /\ provIdx' = provIdx + 1          \* it finds nothing: return None
          /\ failed' = failed \cup {TextChain[provIdx]}
          /\ UNCHANGED variant
    /\ UNCHANGED << pc, mode, errors, callRet, system >>
    /\ UNCHANGED runVars
    /\ timedOut' = FALSE
    /\ UNCHANGED << pipeVars, trackerVars, toolVars >>

\* _call_cli: one of the two argument variants; None after the second fails;
\* call_claude returns the first response that is not empty
run_text_cli ==
    /\ pc = "text_call"
    /\ mode = "text"
    /\ provIdx <= 2
    /\ variant \in {1, 2}
    /\ \E r \in CliResults :
          /\ timedOut' = (r = "timeout")
          /\ IF ChainReturns(CliUsable(r))
             THEN /\ callRet' = [ok |-> TRUE, by |-> TextChain[provIdx], errors |-> << >>]
                  /\ pc' = "call_ret"
                  /\ UNCHANGED << provIdx, variant, failed >>
             ELSE IF variant = 1 /\ ~CliUsable(r)
             THEN /\ variant' = 2
                  /\ UNCHANGED << provIdx, failed, callRet, pc >>
             ELSE /\ variant' = 0
                  /\ provIdx' = provIdx + 1
                  /\ failed' = IF CliUsable(r) THEN failed
                               ELSE failed \cup {TextChain[provIdx]}
                  /\ UNCHANGED << callRet, pc >>
    /\ UNCHANGED << mode, calls, errors, system >>
    /\ UNCHANGED runVars
    /\ UNCHANGED << pipeVars, trackerVars, toolVars >>

\* return _call_via_anthropic_sdk(prompt, system, model): its text or its exception
call_text_sdk ==
    /\ pc = "text_call"
    /\ mode = "text"
    /\ provIdx = 3
    /\ calls' = Append(calls, TextChain[3])
    /\ \E r \in ProviderResults :
         /\ timedOut' = (r = "timeout")
         /\ IF r = "ok"
            THEN /\ callRet' = [ok |-> TRUE, by |-> TextChain[3], errors |-> << >>]
                 /\ UNCHANGED failed
            ELSE /\ callRet' = [ok |-> FALSE, by |-> "none",
                                errors |-> << << TextChain[3], r >> >>]
                 /\ failed' = failed \cup {TextChain[3]}
    /\ pc' = "call_ret"
    /\ UNCHANGED << mode, provIdx, variant, errors, system >>
    /\ UNCHANGED runVars
    /\ UNCHANGED << pipeVars, trackerVars, toolVars >>

-----------------------------------------------------------------------------
(* apply_external_form after call_claude *)

\* what json.loads(strip_json_fences(raw)) and len(actions) make of a response:
\* a list of n actions, or an exception (no JSON, or JSON with no len())
Parses == {"list", "unusable"}

\* the except branch of the vision call: blind fill
BlindFill(usable) == ~usable

\* back in apply_external_form: the plan, or the blind fill when anything raised;
\* the locals of call_claude and the text of its exception are gone
after_vision ==
    /\ pc = "call_ret"
    /\ mode = "vision"
    /\ \E parse \in Parses, n \in 0..MaxPlan :
          /\ (n = 0 \/ (callRet.ok /\ parse = "list"))
          /\ IF BlindFill(callRet.ok /\ parse = "list")
             THEN /\ tiers' = Append(tiers, "blind")
                  /\ pc' = "blind"
                  /\ UNCHANGED plan
             ELSE /\ plan' = n
                  /\ pc' = "plan"
                  /\ UNCHANGED tiers
    /\ failed' = {}
    /\ errors' = << >>
    /\ callRet' = [callRet EXCEPT !.errors = << >>]
    /\ UNCHANGED << job, sessionFile, browser, context, pwStopped, page, outcome, raised,
                    loadRet, loadLog, loginRet, loginCount, loginPage, step, touched, clicks, lastClick,
                    agentIdx, agentRuns, destUrl >>
    /\ UNCHANGED << mode, provIdx, variant, calls, system >>
    /\ timedOut' = FALSE
    /\ UNCHANGED << pipeVars, trackerVars, toolVars >>

\* a bug: the blind fill reports success without looking at the page
BlindVerdict_assumed(p) == OutcomeNoReason(TRUE, "external_form_blind", "None")

\* success_keywords of the blind fill found in the page text
BlindVerdict(p) ==
    IF p.success
    THEN OutcomeNoReason(TRUE, "external_form_blind", "None")
    ELSE OutcomeNoReason(FALSE, "external_form", "vision_unavailable_blind_fill")

\* the blind fill: profile fields, resume upload, the first visible submit
\* control, then the look for a confirmation text
blind_fill ==
    /\ pc = "blind"
    /\ \E filled \in BOOLEAN, button \in BOOLEAN :
          \/ /\ button
             /\ pc' = "except"
             /\ touched' = (touched \/ filled)
             /\ UNCHANGED << page, lastClick, outcome >>
          \/ /\ IF button
                THEN /\ page' \in AfterFormPages
                     /\ lastClick' = "form"
                     /\ touched' = FALSE
                ELSE /\ touched' = (touched \/ filled)
                     /\ UNCHANGED << page, lastClick >>
             /\ outcome' = BlindVerdict(page')
             /\ pc' = "finally"
    /\ UNCHANGED << job, sessionFile, browser, context, pwStopped, raised, loadRet, loadLog,
                     loginRet, loginCount, loginPage, step, clicks, tiers, agentIdx, agentRuns,
                    plan, destUrl >>
    /\ UNCHANGED chainVars
    /\ timedOut' = FALSE
    /\ UNCHANGED << pipeVars, trackerVars, toolVars >>

\* one action of the plan: r is what became of it
\*   "done"       the field or button was found and acted upon
\*   "skipped"    not found, or an unknown kind: nothing happens
\*   "failed"     an exception inside the try: logged, next action
\*   "malformed"  the element is no dict: action.get raises outside the try
plan_step ==
    /\ pc = "plan"
    /\ plan > 0
    /\ \E kind \in {"fill", "select", "upload", "click"}, r \in {"done", "skipped", "failed", "malformed"} :
          IF r = "malformed"
          THEN /\ pc' = "except"
               /\ UNCHANGED << plan, page, touched, lastClick >>
          ELSE /\ plan' = plan - 1
               /\ UNCHANGED pc
               /\ IF r = "done" /\ kind = "click"
                  THEN /\ page' \in AfterFormPages
                       /\ lastClick' = "form"
                       /\ touched' = FALSE
                  ELSE /\ touched' = (touched \/ r = "done")
                       /\ UNCHANGED << page, lastClick >>
    /\ UNCHANGED << job, sessionFile, browser, context, pwStopped, outcome, raised, loadRet, loadLog,
                     loginRet, loginCount, loginPage, step, clicks, tiers, agentIdx, agentRuns,
                    destUrl >>
    /\ UNCHANGED chainVars
    /\ timedOut' = FALSE
    /\ UNCHANGED << pipeVars, trackerVars, toolVars >>

\* a bug: the confirmation text is looked for without the challenge check
PlanVerdict_noChallengeCheck(p) ==
    IF p.success
    THEN OutcomeNoReason(TRUE, "external_form", "None")
    ELSE OutcomeNoReason(FALSE, "external_form", "no_confirmation")

\* after the plan: the challenge check, then the confirmation text
PlanVerdict(p) ==
    IF _detect_captcha(p)
    THEN OutcomeNoReason(FALSE, "external_form", "captcha")
    ELSE IF p.success
    THEN OutcomeNoReason(TRUE, "external_form", "None")
    ELSE OutcomeNoReason(FALSE, "external_form", "no_confirmation")

plan_done ==
    /\ pc = "plan"
    /\ plan = 0
    /\ outcome' = PlanVerdict(page)
    /\ pc' = "finally"
    /\ UNCHANGED << job, sessionFile, browser, context, pwStopped, page, raised, loadRet, loadLog,
                     loginRet, loginCount, loginPage, step, touched, clicks, lastClick, tiers,
                    agentIdx, agentRuns, plan, destUrl >>
    /\ UNCHANGED chainVars
    /\ timedOut' = FALSE
    /\ UNCHANGED << pipeVars, trackerVars, toolVars >>

-----------------------------------------------------------------------------
(* run_application: except, finally, and the way out *)

\* except Exception as exc: result = {"success": False, "method": "unknown", ...}
handler ==
    /\ pc = "except"
    /\ outcome' = OutcomeNoReason(FALSE, "unknown", "exception")
    /\ pc' = "finally"
    /\ UNCHANGED << job, sessionFile, browser, context, pwStopped, page, raised, loadRet, loadLog,
                     loginRet, loginCount, loginPage, step, touched, clicks, lastClick, tiers,
                    agentIdx, agentRuns, plan, destUrl >>
    /\ UNCHANGED chainVars
    /\ timedOut' = FALSE
    /\ UNCHANGED << pipeVars, trackerVars, toolVars >>

\* finally: try: context.close(); browser.close()  except Exception: pass
finally ==
    /\ pc = "finally"
    /\ \E contextCloses \in BOOLEAN, browserCloses \in BOOLEAN :
          IF contextCloses
          THEN /\ context' = "closed"
               /\ browser' = IF browserCloses THEN "closed" ELSE browser
          ELSE UNCHANGED << context, browser >>
    /\ pc' = "with_exit"
    /\ UNCHANGED << job, sessionFile, pwStopped, page, outcome, raised, loadRet, loadLog, loginRet,
                    loginCount, loginPage, step, touched, clicks, lastClick, tiers, agentIdx,
                    agentRuns, plan, destUrl >>
    /\ UNCHANGED chainVars
    /\ timedOut' = FALSE
    /\ UNCHANGED << pipeVars, trackerVars, toolVars >>

\* the end of `with sync_playwright() as pw`; then return result, or the
\* exception goes on to the caller
with_exit ==
    /\ pc = "with_exit"
    /\ pwStopped' = TRUE
    /\ pc' = "done"
    /\ UNCHANGED << job, sessionFile, browser, context, page, outcome, raised, loadRet, loadLog,
                     loginRet, loginCount, loginPage, step, touched, clicks, lastClick, tiers,
                    agentIdx, agentRuns, plan, destUrl >>
    /\ UNCHANGED chainVars
    /\ timedOut' = FALSE
    /\ UNCHANGED << pipeVars, trackerVars, toolVars >>

-----------------------------------------------------------------------------
(* apply_jobs.py: find_by_label and _fill_field *)

\* one pass of `for strategy in strategies`: the Locator it returns, NoHandle
\* when it goes on to the next strategy (no match, a label without a usable
\* `for`, or an exception: continue)
TryStrategy(d, s) ==
    IF s \in d.faults THEN NoHandle
    ELSE IF s = "label"
    THEN IF Len(d.labels) > 0 /\ d.labels[1] = "input"
         THEN Handle(s, 1)
         ELSE NoHandle
    ELSE IF d.hits[s] > 0 THEN Handle(s, 1) ELSE NoHandle

RECURSIVE FindFrom(_, _)
FindFrom(d, i) ==
    IF i > Len(Strategies) THEN NoHandle
    ELSE IF TryStrategy(d, Strategies[i]) # NoHandle
    THEN TryStrategy(d, Strategies[i])
    ELSE FindFrom(d, i + 1)

find_by_label(d) == FindFrom(d, 1)

\* the texts of the options of a select: does the k-th contain the value
OptionLists == UNION { [1..n -> BOOLEAN] : n \in 0..MaxOptions }

\* match = next((o for o in options if value.lower() in o.lower()), None)
FirstMatch(options) ==
    IF \E k \in 1..Len(options) : options[k]
    THEN CHOOSE k \in 1..Len(options) : options[k] /\ \A j \in 1..(k - 1) : ~options[j]
    ELSE 0

\* a call of find_by_label
call_find_by_label ==
    /\ pc = "idle" /\ ppc = "idle"
    /\ foundLoc' = find_by_label(dom)
    /\ UNCHANGED << dom, value, fillRet, fieldSet >>
    /\ UNCHANGED << engineVars, pipeVars, trackerVars >>

\* a call of _fill_field: the empty value, find_by_label, then the tag of the
\* element, its options when it is a select, and the fill or the selection;
\* an exception of any of these calls is logged and gives False
call_fill_field ==
    /\ pc = "idle" /\ ppc = "idle"
    /\ IF value = ""
       THEN /\ fillRet' = "false"
            /\ fieldSet' = "nothing"
            /\ UNCHANGED foundLoc
       ELSE /\ foundLoc' = find_by_label(dom)
            /\ IF foundLoc' = NoHandle
               THEN /\ fillRet' = "false"
                    /\ fieldSet' = "nothing"
               ELSE \E tag \in {"select", "input"}, options \in OptionLists, raises \in BOOLEAN :
                       /\ tag = "input" => options = << >>
                       /\ IF raises
                          THEN /\ fillRet' = "false"
                               /\ fieldSet' = "nothing"
                          ELSE /\ fillRet' = "true"
                               /\ fieldSet' =
                                    IF tag = "input" THEN "filled"
                                    ELSE IF FirstMatch(options) # 0
                                    THEN [option |-> FirstMatch(options)]
                                    ELSE "nothing"
    /\ UNCHANGED << dom, value >>
    /\ UNCHANGED << engineVars, pipeVars, trackerVars >>

-----------------------------------------------------------------------------
(* update_excel.py: the tracker workbook *)

\* job_exists: the id is in column A of some row of the workbook at `path`
job_exists(rows, id) == \E i \in 1..Len(rows) : rows[i].job_id = id

\* the first row iter_rows reaches with that id
FirstRow(rows, id) ==
    CHOOSE i \in 1..Len(rows) :
        rows[i].job_id = id /\ \A j \in 1..(i - 1) : rows[j].job_id # id

\* _find_workbook_with_job: 0 for the primary path, k for the k-th newest
\* fallback that holds the id, the primary path when none does
_find_workbook_with_job(id) ==
    IF job_exists(tracker, id) THEN 0
    ELSE IF \E k \in 1..Len(fallbacks) : job_exists(fallbacks[k], id)
    THEN CHOOSE k \in 1..Len(fallbacks) :
            /\ job_exists(fallbacks[k], id)
            /\ \A m \in 1..(k - 1) : ~job_exists(fallbacks[m], id)
    ELSE 0

\* the row update_status rewrites: status, applied_at, notes
SetStatus(rows, id, status, notes) ==
    [rows EXCEPT ![FirstRow(rows, id)] =
        [@ EXCEPT !.status = status, !.applied_at = "now", !.notes = notes]]

\* _safe_save(wb, path) for the primary path: the move replaces the target,
\* or, when the target is locked, the workbook goes to a new fallback file
\* and the target stays as it was
_safe_save(wb, locked) ==
    IF locked
    THEN /\ fallbacks' = << wb >> \o fallbacks
         /\ UNCHANGED tracker
    ELSE /\ tracker' = wb
         /\ UNCHANGED fallbacks

\* add_job: the workbook with one more row, applied_at empty
AddedRows(rows, id, status) == Append(rows, Row(id, status, "", ""))

\* update_status on one workbook: the first row with the id rewritten
UpdatedRows(rows, id, status, notes) ==
    IF job_exists(rows, id) THEN SetStatus(rows, id, status, notes) ELSE rows

\* add_job: load the workbook at `path`, append one row, save
add_job ==
    /\ ppc = "idle"
    /\ Len(tracker) < MaxRows
    /\ \E id \in Ids, locked \in BOOLEAN :
          /\ locked => Len(fallbacks) < MaxFallbacks
          /\ _safe_save(AddedRows(tracker, id, STATUS_PENDING), locked)
          /\ added' = added \cup {id}
    /\ UNCHANGED << updRet, pipeVars, engineVars, toolVars >>

\* update_status: the workbook that holds the id, its first row with that
\* id rewritten and saved to where it was loaded from; False when no row has it
update_status ==
    /\ ppc = "idle"
    /\ \E id \in Ids, locked \in BOOLEAN :
          LET k  == _find_workbook_with_job(id)
              wb == IF k = 0 THEN tracker ELSE fallbacks[k]
          IN  IF job_exists(wb, id)
              THEN /\ updRet' = [job_id |-> id, ret |-> TRUE]
                   /\ IF k = 0
                      THEN /\ locked => Len(fallbacks) < MaxFallbacks
                           /\ _safe_save(SetStatus(wb, id, STATUS_APPLIED, "note"), locked)
                      ELSE /\ ~locked
                           /\ fallbacks' = [fallbacks EXCEPT ![k] =
                                                SetStatus(wb, id, STATUS_APPLIED, "note")]
                           /\ UNCHANGED tracker
              ELSE /\ ~locked
                   /\ updRet' = [job_id |-> id, ret |-> FALSE]
                   /\ UNCHANGED << tracker, fallbacks >>
    /\ UNCHANGED << added, pipeVars, engineVars, toolVars >>

-----------------------------------------------------------------------------
(* main_pipeline.py: run_pipeline.  The tracker file is not locked while the
   pipeline runs, so every save replaces the primary workbook. *)

\* the dicts run_application returns
RunOutcomes ==
    { Outcome(FALSE, "linkedin", "2fa_required", "2fa"),
      Outcome(FALSE, "easy_apply", "captcha_detected", "captcha"),
      Outcome(FALSE, "easy_apply", "linkedin_auth_required", "auth_wall"),
      Outcome(FALSE, "easy_apply", "modal_stuck", "modal_stuck"),
      Outcome(TRUE, "easy_apply", "None", "None"),
      OutcomeNoReason(FALSE, "agent_browser", "agent_timeout"),
      OutcomeNoReason(FALSE, "agent_browser", "agent_no_result"),
      OutcomeNoReason(TRUE, "agent_browser", "None"),
      OutcomeNoReason(FALSE, "external_form", "captcha"),
      Outcome(FALSE, "external_form", "linkedin_auth_required", "auth_wall"),
      OutcomeNoReason(TRUE, "external_form_blind", "None"),
      OutcomeNoReason(FALSE, "external_form", "vision_unavailable_blind_fill"),
      OutcomeNoReason(TRUE, "external_form", "None"),
      OutcomeNoReason(FALSE, "external_form", "no_confirmation"),
      OutcomeNoReason(FALSE, "unknown", "exception") }

\* apply_result.get("reason", "")
ReasonOf(r) == IF "reason" \in DOMAIN r THEN r.reason ELSE ""

\* "captcha" in error.lower(): the three CAPTCHA messages of apply_jobs.py
MentionsCaptcha(e) == e = "captcha"

\* "vision unavailable" in error.lower() or "manual_required" in error.lower():
\* the message of the unverified blind fill
MentionsManual(e) == e = "vision_unavailable_blind_fill"

\* a bug: every failure is recorded as failed
StatusFor_failedOnly(r) == IF r.success THEN STATUS_APPLIED ELSE STATUS_FAILED

\* the if/elif chain after run_application
StatusFor(r) ==
    IF r.success THEN STATUS_APPLIED
    ELSE IF ReasonOf(r) = "captcha_detected" \/ MentionsCaptcha(r.error) THEN STATUS_MANUAL
    ELSE IF ReasonOf(r) = "2fa_required" THEN STATUS_MANUAL
    ELSE IF ReasonOf(r) = "linkedin_auth_required" THEN STATUS_MANUAL
    ELSE IF MentionsManual(r.error) THEN STATUS_MANUAL
    ELSE IF ReasonOf(r) = "no_easy_apply" THEN STATUS_FAILED
    ELSE STATUS_FAILED

\* a bug: the dry-run branch is never taken
SkipsApply_never(dry) == FALSE

\* if dry_run: ... continue
SkipsApply(dry) == dry

\* new_jobs = [j for j in jobs if not job_exists(tracker, j["job_id"])]
Unseen(js, rows) == SelectSeq(js, LAMBDA id : ~job_exists(rows, id))

\* the lists run_scraper can return
Scrapes == UNION { [1..n -> Ids] : n \in 0..MaxScrape }

RECURSIVE SumOver(_, _)
SumOver(f, S) ==
    IF S = {} THEN 0
    ELSE LET x == CHOOSE y \in S : TRUE IN f[x] + SumOver(f, S \ {x})

\* calls of run_application so far, over all jobs
TotalApplies == SumOver(applyCalls, Ids)

\* a bug: the cap is compared one job too late
CapReached_late(n, cap) == n > cap

\* if processed >= config.max_jobs_per_run: break
CapReached(n, cap) == n >= cap

\* a return of run_pipeline; mark_ran_today before the three that call it
Exit(how) ==
    /\ lastExit' = how
    /\ ppc' = "idle"
    /\ ranDates' = IF how \in {"no_jobs", "no_new_jobs", "complete"} THEN TRUE ELSE ranDates

\* run_pipeline is called: the guard.  The marker holds a date; a call on a
\* later day finds it without today's date.
pipeline_start ==
    /\ ppc = "idle"
    /\ runs < MaxRuns
    /\ runs' = runs + 1
    /\ \E dry \in BOOLEAN, newDay \in BOOLEAN :
          /\ dry_run' = dry
          /\ IF ranDates /\ ~newDay
             THEN /\ lastExit' = "already_ran"
                  /\ UNCHANGED << ppc, ranDates >>
             ELSE /\ lastExit' = "none"
                  /\ ppc' = "resume"
                  /\ ranDates' = FALSE
    /\ jobs' = << >> /\ new_jobs' = << >> /\ jobIdx' = 1 /\ processed' = 0
    /\ passed' = {} /\ scrapeOk' = FALSE /\ apply_result' = NoOutcome
    /\ runBase' = [rows |-> Len(tracker), applies |-> TotalApplies]
    /\ UNCHANGED << max_jobs_per_run, scoreCalls, applyCalls, trackerVars, engineVars, toolVars >>

\* step 0: the base resume must exist; then init_tracker, which leaves an
\* existing workbook alone
validate_resume ==
    /\ ppc = "resume"
    /\ \E found \in BOOLEAN :
          IF found
          THEN /\ ppc' = "profile"
               /\ UNCHANGED << lastExit, ranDates >>
          ELSE Exit("no_resume")
    /\ UNCHANGED << runBase, dry_run, max_jobs_per_run, runs, scrapeOk, jobs, new_jobs, jobIdx,
                    processed, passed, apply_result, scoreCalls, applyCalls,
                    trackerVars, engineVars, toolVars >>

\* step 1: get_profile; an exception ends the run
get_profile ==
    /\ ppc = "profile"
    /\ \E extracted \in BOOLEAN :
          IF extracted
          THEN /\ ppc' = "scrape"
               /\ UNCHANGED << lastExit, ranDates >>
          ELSE Exit("no_profile")
    /\ UNCHANGED << runBase, dry_run, max_jobs_per_run, runs, scrapeOk, jobs, new_jobs, jobIdx,
                    processed, passed, apply_result, scoreCalls, applyCalls,
                    trackerVars, engineVars, toolVars >>

\* steps 2 and 3: run_scraper gives [] on every failure; no jobs, or no job
\* that is not yet in the tracker, marks the day and returns
scrape_and_filter ==
    /\ ppc = "scrape"
    /\ \E ok \in BOOLEAN, js \in Scrapes :
          /\ ~ok => js = << >>
          /\ scrapeOk' = ok
          /\ jobs' = js
          /\ IF js = << >>
             THEN /\ Exit("no_jobs")
                  /\ UNCHANGED new_jobs
             ELSE /\ new_jobs' = Unseen(js, tracker)
                  /\ IF new_jobs' = << >>
                     THEN Exit("no_new_jobs")
                     ELSE /\ ppc' = "loop"
                          /\ UNCHANGED << lastExit, ranDates >>
    /\ UNCHANGED << runBase, dry_run, max_jobs_per_run, runs, jobIdx, processed, passed,
                    apply_result, scoreCalls, applyCalls, trackerVars, engineVars, toolVars >>

\* one pass of `for job in new_jobs` up to run_application: the cap, score_job,
\* add_job as skipped or as pending, the dry-run branch; after the last job
\* or at the cap, mark_ran_today
process_job ==
    /\ ppc = "loop"
    /\ IF jobIdx > Len(new_jobs) \/ CapReached(processed, max_jobs_per_run)
       THEN /\ Exit("complete")
            /\ UNCHANGED << jobIdx, processed, passed, scoreCalls, tracker, added, updRet >>
       ELSE LET jid == new_jobs[jobIdx] IN
            /\ scoreCalls' = [scoreCalls EXCEPT ![jid] = @ + 1]
            /\ added' = added \cup {jid}
            /\ UNCHANGED << lastExit, ranDates >>
            /\ \E enough \in BOOLEAN :
                  IF ~enough
                  THEN /\ tracker' = AddedRows(tracker, jid, STATUS_SKIPPED)
                       /\ processed' = processed + 1
                       /\ jobIdx' = jobIdx + 1
                       /\ UNCHANGED << ppc, passed, updRet >>
                  ELSE /\ passed' = passed \cup {jid}
                       /\ IF SkipsApply(dry_run)
                          THEN /\ tracker' = UpdatedRows(AddedRows(tracker, jid, STATUS_PENDING),
                                                         jid, STATUS_PENDING, "dry_run")
                               /\ updRet' = [job_id |-> jid, ret |-> TRUE]
                               /\ processed' = processed + 1
                               /\ jobIdx' = jobIdx + 1
                               /\ UNCHANGED ppc
                          ELSE /\ tracker' = AddedRows(tracker, jid, STATUS_PENDING)
                               /\ ppc' = "apply"
                               /\ UNCHANGED << processed, jobIdx, updRet >>
    /\ apply_result' = NoOutcome
    /\ UNCHANGED << runBase, dry_run, max_jobs_per_run, runs, scrapeOk, jobs, new_jobs,
                    applyCalls, fallbacks, engineVars, toolVars >>

\* step 7: run_application, the status for its result, update_status; an
\* exception out of run_application ends run_pipeline
apply_job ==
    /\ ppc = "apply"
    /\ LET jid == new_jobs[jobIdx] IN
       /\ applyCalls' = [applyCalls EXCEPT ![jid] = @ + 1]
       /\ \/ /\ \E r \in RunOutcomes :
                   /\ apply_result' = r
                   /\ tracker' = UpdatedRows(tracker, jid, StatusFor(r), "result")
             /\ updRet' = [job_id |-> jid, ret |-> job_exists(tracker, jid)]
             /\ processed' = processed + 1
             /\ jobIdx' = jobIdx + 1
             /\ ppc' = "loop"
             /\ UNCHANGED << lastExit, ranDates >>
          \/ /\ Exit("crash")
             /\ UNCHANGED << apply_result, tracker, updRet, processed, jobIdx >>
    /\ UNCHANGED << runBase, dry_run, max_jobs_per_run, runs, scrapeOk, jobs, new_jobs, passed,
                    scoreCalls, fallbacks, added, engineVars, toolVars >>

-----------------------------------------------------------------------------
(* Specifications *)

Next ==
    \/ launch \/ new_context \/ new_page \/ try_enter
    \/ _load_linkedin_cookies \/ after_load \/ login_to_linkedin \/ after_login
    \/ easy_goto \/ easy_entry \/ loop_head \/ loop_fill \/ loop_buttons \/ after_easy
    \/ call_agent_browser \/ ext_goto \/ ext_checks
    \/ call_vision_provider \/ after_vision \/ blind_fill \/ plan_step \/ plan_done
    \/ handler \/ finally \/ with_exit

\* one call of run_application
Spec == Init /\ [][Next]_vars

\* one call of call_claude, with or without an image
InitChain ==
    /\ mode \in {"vision", "text"}
    /\ pc = (IF mode = "vision" THEN "vision_call" ELSE "text_call")
    /\ job = [linkedin |-> FALSE, creds |-> FALSE, onSite |-> FALSE]
    /\ sessionFile = "absent"
    /\ browser = "none" /\ context = "none" /\ pwStopped = FALSE
    /\ page = BlankPage
    /\ outcome = NoOutcome /\ raised = FALSE
    /\ loadRet = "none" /\ loadLog = "none" /\ loginRet = NoOutcome /\ loginCount = 0 /\ loginPage = NoLogin
    /\ step = 0 /\ touched = FALSE /\ clicks = 0 /\ lastClick = "none"
    /\ tiers = << >> /\ agentIdx = 1 /\ agentRuns = << >>
    /\ provIdx = 1 /\ variant = 0 /\ system \in BOOLEAN
    /\ calls = << >> /\ failed = {} /\ errors = << >> /\ callRet = NoCall
    /\ plan = 0 /\ destUrl = "none" /\ timedOut = FALSE
    /\ PipelineIdle

NextChain == call_vision_provider \/ call_text_cli \/ run_text_cli \/ call_text_sdk

SpecChain == InitChain /\ [][NextChain]_vars

\* the tracker driven on its own, from the workbook init_tracker creates
EngineIdle ==
    /\ pc = "idle"
    /\ job = [linkedin |-> FALSE, creds |-> FALSE, onSite |-> FALSE]
    /\ sessionFile = "absent"
    /\ browser = "none" /\ context = "none" /\ pwStopped = FALSE
    /\ page = BlankPage
    /\ outcome = NoOutcome /\ raised = FALSE
    /\ loadRet = "none" /\ loadLog = "none" /\ loginRet = NoOutcome /\ loginCount = 0 /\ loginPage = NoLogin
    /\ step = 0 /\ touched = FALSE /\ clicks = 0 /\ lastClick = "none"
    /\ tiers = << >> /\ agentIdx = 1 /\ agentRuns = << >>
    /\ mode = "none" /\ provIdx = 1 /\ variant = 0 /\ system = FALSE
    /\ calls = << >> /\ failed = {} /\ errors = << >> /\ callRet = NoCall
    /\ plan = 0 /\ destUrl = "none" /\ timedOut = FALSE

InitTracker == EngineIdle /\ PipelineIdle

NextTracker == add_job \/ update_status

SpecTracker == InitTracker /\ [][NextTracker]_vars

\* the two helpers called on any page, for any label and value
InitToolkit ==
    /\ EngineIdle
    /\ NoRunYet /\ max_jobs_per_run = 1
    /\ dom \in Doms
    /\ value \in {"", "x"}
    /\ foundLoc = NotCalled /\ fillRet = "none" /\ fieldSet = "nothing"

NextToolkit == call_find_by_label \/ call_fill_field

SpecToolkit == InitToolkit /\ [][NextToolkit]_vars

\* runs of run_pipeline, one after the other, on one tracker
InitPipeline ==
    /\ EngineIdle
    /\ NoRunYet /\ ToolIdle
    /\ max_jobs_per_run \in 1..MaxScrape

NextPipeline ==
    \/ pipeline_start
    \/ validate_resume
    \/ get_profile
    \/ scrape_and_filter
    \/ process_job
    \/ apply_job

SpecPipeline == InitPipeline /\ [][NextPipeline]_vars

\* either call: run_application for a job, or call_claude on its own
InitCalls == Init \/ (InitChain /\ mode = "text")

NextCalls == Next \/ NextChain

SpecCalls == InitCalls /\ [][NextCalls]_vars

-----------------------------------------------------------------------------
(* Properties *)

Returned == pc = "done" /\ ~raised
HasOutcome == "success" \in DOMAIN outcome
Succeeded == HasOutcome /\ outcome.success
HasReason(r) == "reason" \in DOMAIN outcome /\ outcome.reason = r
EasyApplyEnded == pc = "easy_ret" /\ lastClick \in {"entry", "submit", "next"}
TwoFactorSeen == "reason" \in DOMAIN loginRet /\ loginRet.reason = "2fa_required"
BlindFillRan == Len(tiers) > 0 /\ tiers[Len(tiers)] = "blind"
ChainOf(m) == IF m = "text" THEN TextChain ELSE VisionChain

\* C1: an outcome with success=true is returned only if a success phrase was
\* found in the page text or, after a submit click of the guided-apply loop,
\* the modal container was found absent; on every path, the agent handoff
\* included.
C1_NoFalseSuccess ==
    Succeeded => (page.success \/ (lastClick = "submit" /\ ~page.modal))

\* C2: when the page the engine works on holds a challenge phrase, the outcome
\* a strategy returns is a failure with reason captcha_detected, and no fill,
\* upload or click was done on that page.
C2_ChallengeShortCircuit ==
    (pc = "finally" /\ _detect_captcha(page))
        => (~outcome.success /\ HasReason("captcha_detected") /\ ~touched)

\* C3: every path through run_application ends with one outcome that has
\* the fields success, method and error.
C3_OutcomeShape ==
    pc = "done" => {"success", "method", "error"} \subseteq DOMAIN outcome

\* C4: run_application never raises: whatever stage faults, it returns an
\* outcome.
C4_FaultContainment ==
    pc = "done" => (~raised /\ HasOutcome)

\* C5: once login has classified the page as a verification checkpoint,
\* nothing more is done (no navigation, click, fill, upload, second login,
\* strategy, agent, provider call), and run_application returns
\* success=false with reason 2fa_required.
C5_TwoFactorShortCircuit ==
    [][ /\ TwoFactorSeen =>
            /\ UNCHANGED << page, touched, clicks, lastClick, loginCount, tiers,
                            agentRuns, calls, sessionFile >>
            /\ pc' \in {"finally", "with_exit", "done"}
        /\ (TwoFactorSeen' /\ pc' = "done") =>
            /\ ~raised'
            /\ outcome'.success = FALSE
            /\ outcome'.reason = "2fa_required"
      ]_vars

C5_Witness == pc = "done" /\ TwoFactorSeen /\ loginCount = 1

\* C6: the guided-apply loop runs at most 10 iterations, and when it ends by
\* running out of iterations or by finding neither a submit nor a next
\* control, the outcome is a failure with reason modal_stuck.
C6_StepBound ==
    /\ step <= MaxSteps
    /\ clicks <= MaxSteps
    /\ (EasyApplyEnded /\ (step = MaxSteps \/ (~page.captcha /\ ControlChosen(page) = "none"
                                                /\ ~(lastClick = "submit" /\ Succeeded))))
          => (~outcome.success /\ HasReason("modal_stuck"))

C6_Witness == EasyApplyEnded /\ step = MaxSteps /\ clicks = MaxSteps /\ HasReason("modal_stuck")

\* C7: login is attempted exactly when session load returned false; a stored
\* session that fails the check is deleted before that login, and a session
\* that validates leads to no login.
C7_LoginIffLoadFailed ==
    /\ loginCount <= 1
    /\ pc \notin {"load_ret", "login"} => (loginCount = 1 <=> loadRet = "false")
    /\ pc \in {"load_ret", "login"} => (loginCount = 0 /\ loadRet # "none")
    /\ (pc \in {"load_ret", "login"} /\ loadRet = "false") => sessionFile = "absent"
    /\ loadRet # "none" => (job.linkedin /\ job.creds)

C7_Witness == pc = "done" /\ loadLog = "expired" /\ loginCount = 1 /\ sessionFile = "saved"

\* C8: the providers of a chain are called in the chain's order, each only
\* after all before it failed, and the call returns the result of the first
\* one that succeeds without calling any provider after it.
C8_FallbackOrder ==
    /\ Len(calls) <= Len(ChainOf(mode))
    /\ \A i \in 1..Len(calls) : calls[i] = ChainOf(mode)[i]
    /\ \A i \in 1..(Len(calls) - 1) : calls[i] \in failed
    /\ callRet.ok => (pc = "call_ret" /\ callRet.by = calls[Len(calls)]
                      /\ callRet.by \notin failed)
    /\ (pc = "call_ret" /\ ~callRet.ok) => \A i \in 1..Len(ChainOf(mode)) :
                                              ChainOf(mode)[i] \in failed

C8_Witness == pc = "call_ret" /\ callRet.ok /\ mode = "text" /\ callRet.by = "openclaw CLI"

\* C9: when run_application returns, the browser context and the browser
\* opened for the job have both been closed.
C9_ResourceRelease ==
    Returned => (context = "closed" /\ browser = "closed")

InTiers(t) == \E i \in 1..Len(tiers) : tiers[i] = t
TierOrder == << "easy_apply", "agent", "vision", "blind" >>
TierPos(t) == CHOOSE k \in 1..Len(TierOrder) : TierOrder[k] = t
LoginReason == IF "reason" \in DOMAIN loginRet THEN loginRet.reason ELSE "none"
Methods == {"easy_apply", "external_form", "external_form_blind", "agent_browser", "unknown"}

C13_BlindOnlyIfRaised ==
    InTiers("blind") => ~callRet.ok

\* C14: an outcome that reports a challenge, a sign-in wall or a two-factor
\* requirement carries the reason of that condition (captcha_detected,
\* linkedin_auth_required, 2fa_required), never a missing reason.
C14_DistinctReasons ==
    (pc \in {"finally", "with_exit", "done"} /\ HasOutcome) =>
        /\ outcome.error = "captcha" => HasReason("captcha_detected")
        /\ outcome.error = "auth_wall" => HasReason("linkedin_auth_required")
        /\ outcome.error = "2fa" => HasReason("2fa_required")

\* C15: the method of every outcome run_application returns is one of
\* easy_apply, external_form, external_form_blind, agent_browser, unknown.
C15_MethodVocabulary ==
    Returned => outcome.method \in Methods

\* C16: _load_linkedin_cookies returns True only when the feed page showed the
\* nav marker or a feed URL without "login"; whenever it returns False (no
\* file, expired session, exception while loading) no session file is left.
C16_SessionLoadContract ==
    /\ loadRet = "true" => (SessionValid(loadLog) /\ sessionFile = "stored")
    /\ loadRet = "false" => loadLog \in {"no_session", "expired", "load_failed"}
    /\ (loadRet = "false" /\ pc \in {"load_ret", "login"}) => sessionFile = "absent"

C16_Witness ==
    pc = "load_ret" /\ loadRet = "false" /\ loadLog = "load_failed" /\ sessionFile = "absent"

C18_SessionWriteDiscipline ==
    [][ /\ (sessionFile' # sessionFile /\ sessionFile' # "absent")
              => (pc = "login" /\ pc' = "login_ret" /\ loginRet'.success
                  /\ sessionFile' = "saved")
        /\ (pc = "login" /\ pc' = "login_ret")
              => (loginRet'.success <=> sessionFile' = "saved")
      ]_vars

C18_Witness ==
    /\ pc = "login_ret" /\ loginRet.success /\ sessionFile = "saved"
    /\ loginPage.url = "other" /\ ~loginPage.marker

\* C19: when every provider of a chain failed, the error call_claude raises
\* lists one failure reason per provider tried, in order.
C19_AggregatedFailure ==
    (pc = "call_ret" /\ ~callRet.ok) =>
        /\ Len(callRet.errors) = Len(calls)
        /\ \A i \in 1..Len(calls) : callRet.errors[i][1] = calls[i]

AfterEasyApply == pc \in {"easy_ret", "finally", "with_exit", "done"} /\ tiers = << "easy_apply" >>
PlanExecuted ==
    /\ pc \in {"finally", "with_exit", "done"}
    /\ Len(tiers) > 0 /\ tiers[Len(tiers)] = "vision"
    /\ callRet.ok /\ outcome.method # "unknown"

\* C21: a guided apply whose submit click is followed by the confirmation
\* text returns success with method easy_apply, whatever the number k of
\* next steps before it, for k up to 9 (the submit of the tenth iteration);
\* the session of a successful login is saved; a loop that used up its ten
\* iterations returns modal_stuck, and modal_stuck comes from nowhere else
\* than the used-up loop or an iteration without a control.
C21_GuidedCompletion ==
    /\ (lastClick = "submit" /\ page.success /\ tiers = << "easy_apply" >>
        /\ pc \in {"loop", "easy_ret", "finally", "with_exit", "done"})
          => /\ outcome = Outcome(TRUE, "easy_apply", "None", "None")
             /\ step <= MaxSteps - 1
             /\ clicks <= MaxSteps
             /\ loginCount = 1 => (loginRet.success => sessionFile = "saved")
    /\ (EasyApplyEnded /\ step = MaxSteps) => HasReason("modal_stuck")
    /\ (EasyApplyEnded /\ HasReason("modal_stuck"))
          => (step = MaxSteps \/ ControlChosen(page) = "none")

C21_Witness ==
    /\ pc = "done" /\ Succeeded /\ outcome.method = "easy_apply"
    /\ step = MaxSteps - 1 /\ clicks = MaxSteps /\ page.success
    /\ loadLog = "no_session" /\ loginCount = 1 /\ sessionFile = "saved"

C28_AgentAvailability ==
    InTiers("vision") => agentRuns = << >>

\* C29: on the job page the challenge is looked for first, then the sign-in
\* wall, then the Easy Apply button, and the first that fails gives the
\* reason; with any of the three outcomes nothing was clicked, filled or
\* uploaded.
C29_EntryChecks ==
    /\ (pc = "easy_ret" /\ lastClick = "none") =>
          /\ HasReason(IF page.captcha THEN "captcha_detected"
                       ELSE IF page.authWall THEN "linkedin_auth_required"
                       ELSE "no_easy_apply")
          /\ ~page.captcha /\ ~page.authWall => ~page.entry
          /\ ~touched /\ clicks = 0 /\ ~outcome.success
    /\ (pc = "easy_ret" /\ (HasReason("linkedin_auth_required") \/ HasReason("no_easy_apply")))
          => lastClick = "none"

C29_Witness ==
    /\ pc = "easy_ret" /\ lastClick = "none" /\ HasReason("captcha_detected")
    /\ page.captcha /\ page.authWall /\ ~page.entry

\* C30: the guided apply returns success only from an iteration that clicked
\* a submit control, and such an iteration returns success exactly when the
\* page then shows a success phrase or no modal container; a click on a next
\* control returns nothing.
C30_SuccessCondition ==
    [][ /\ (pc = "loop_buttons" /\ lastClick' = "submit" /\ clicks' = clicks + 1)
              => ((pc' = "easy_ret" /\ outcome'.success) <=> (page'.success \/ ~page'.modal))
        /\ (pc' = "easy_ret" /\ pc # "easy_ret" /\ outcome'.success)
              => (pc = "loop_buttons" /\ ControlChosen(page) = "submit"
                  /\ lastClick' = "submit" /\ clicks' = clicks + 1)
        /\ (pc = "loop_buttons" /\ lastClick' = "next" /\ clicks' = clicks + 1)
              => (pc' = "loop" /\ outcome' = outcome)
      ]_vars

C30_Witness ==
    /\ pc = "easy_ret" /\ Succeeded /\ lastClick = "submit"
    /\ ~page.success /\ ~page.modal /\ clicks = 3

\* C27: from the workbook init_tracker creates, after any add_job and
\* update_status calls, job_exists on the tracker path is true exactly for
\* the ids given to add_job, and update_status returned True only for such
\* an id.
C27_TrackerConsistency ==
    /\ \A id \in Ids : job_exists(tracker, id) <=> id \in added
    /\ (updRet # NoUpdate /\ updRet.ret) => updRet.job_id \in added

\* rows of the tracker that carry the id
RowsOf(id) == { i \in 1..Len(tracker) : tracker[i].job_id = id }

\* C23: in a run of run_pipeline with dry_run set, run_application is never
\* called and no browser is launched, and every job that passed scoring has
\* a tracker row with status pending.
C23_DryRunNeverApplies ==
    [][ dry_run' =>
          /\ applyCalls' = applyCalls
          /\ ppc' # "apply"
          /\ browser' = browser
          /\ \A id \in passed' : \E i \in RowsOf(id)' : tracker'[i].status = STATUS_PENDING
      ]_vars

C23_Witness ==
    /\ dry_run /\ lastExit = "complete"
    /\ passed # {}
    /\ \A id \in passed : \E i \in RowsOf(id) : tracker[i].notes = "dry_run"

\* the status the claim gives to a result, by what went wrong
C24_Recorded(r) ==
    IF r.success THEN STATUS_APPLIED
    ELSE IF r.error \in {"captcha", "2fa", "auth_wall", "vision_unavailable_blind_fill"}
    THEN STATUS_MANUAL
    ELSE STATUS_FAILED

\* C24: after run_pipeline has applied to a job, the status written for it is
\* applied exactly when run_application returned success, manual_required
\* for a failure on a challenge, a two-factor requirement, an auth wall or an
\* unverified blind fill, and failed for every other failure; every status in
\* the tracker is one of the five values.
C24_StatusMapping ==
    /\ [](\A i \in 1..Len(tracker) :
            tracker[i].status \in {STATUS_PENDING, STATUS_APPLIED, STATUS_FAILED,
                                   STATUS_SKIPPED, STATUS_MANUAL})
    /\ [][ (ppc = "apply" /\ ppc' = "loop") =>
             LET st == tracker'[FirstRow(tracker', new_jobs[jobIdx])].status IN
             /\ st = C24_Recorded(apply_result')
             /\ st = STATUS_APPLIED <=> apply_result'.success
         ]_vars

C24_Witness ==
    /\ ppc = "loop"
    /\ apply_result = OutcomeNoReason(FALSE, "external_form", "vision_unavailable_blind_fill")
    /\ \E i \in 1..Len(tracker) :
          tracker[i].status = STATUS_MANUAL /\ tracker[i].notes = "result"

\* C25: the ran-today marker is written only by a run that completed
\* successfully, never by one whose scraping step failed.
C25_RunGuard ==
    lastExit \in {"no_jobs", "no_new_jobs", "complete"} => scrapeOk

\* C26: each job_id has at most one tracker row, is scored at most once and
\* is applied to at most once, over all runs.
C26_AlreadySeenFilter ==
    \A id \in Ids :
        /\ Cardinality(RowsOf(id)) <= 1
        /\ scoreCalls[id] <= 1
        /\ applyCalls[id] <= 1

\* C31: in every iteration of the modal loop, a visible submit-type control is
\* the one clicked, also when a continue/next-type control is visible too; a
\* continue/next control is clicked only when no submit-type control is visible.
C31_SubmitPreference ==
    [][ (pc = "loop_buttons" /\ clicks' = clicks + 1) =>
          /\ page.submit => lastClick' = "submit"
          /\ lastClick' = "next" => (page.next /\ ~page.submit)
          /\ lastClick' \in {"submit", "next"}
      ]_vars

C31_Witness ==
    /\ pc = "loop_buttons" /\ page.submit /\ page.next
    /\ lastClick = "submit" /\ clicks >= 1

\* C32: in the vision tier every action of the plan is attempted, in plan
\* order: whatever happens to one action, the next step is again in the plan
\* with one action fewer to go, and the attempt is not aborted with a fault.
C32_PlanTolerance ==
    [][ (pc = "plan" /\ plan > 0) => (pc' = "plan" /\ plan' = plan - 1) ]_vars

\* the priority the claim gives to a strategy
C33_Rank(s) ==
    CASE s = "label" -> 1 [] s = "placeholder" -> 2 [] s = "aria_label" -> 3
      [] s = "name" -> 4 [] s = "id" -> 5

\* the strategy yields a match on the page: the first matching label is linked
\* to an input, or the selector matches an element; a strategy whose locator
\* calls raise yields nothing
C33_Yields(s) ==
    /\ s \notin dom.faults
    /\ IF s = "label"
       THEN Len(dom.labels) > 0 /\ dom.labels[1] = "input"
       ELSE dom.hits[s] > 0

C34_FillFaithful ==
    fillRet # "none" =>
        /\ (value = "" \/ find_by_label(dom) = NoHandle) =>
              (fillRet = "false" /\ fieldSet = "nothing")
        /\ fillRet = "true" => fieldSet # "nothing"

\* C35: run_application reads, writes or deletes the session file, and logs
\* in, only for a job whose apply URL is on linkedin.com with both
\* credentials configured; for a job on another site the guided apply is
\* never started.
C35_SessionFrame ==
    /\ [][ ~(job.onSite /\ job.creds) =>
             /\ sessionFile' = sessionFile
             /\ loadRet' = loadRet
             /\ loginCount' = loginCount
         ]_vars
    /\ [](~job.onSite => ~InTiers("easy_apply"))

\* C36: when login_to_linkedin returns a failure whose reason is not
\* 2fa_required, run_application goes on to the guided apply on the job URL;
\* the outcome is then the one of the apply strategies (or of the catch-all),
\* and the login's reason never is the outcome's reason.
C36_LoginFailureContinues ==
    /\ [][ (pc = "login_ret" /\ ~loginRet.success /\ loginRet.reason # "2fa_required") =>
             /\ pc' = "easy_goto"
             /\ tiers' = Append(tiers, "easy_apply")
             /\ outcome' = NoOutcome
         ]_vars
    /\ []((HasOutcome /\ LoginReason \in {"wrong_credentials", "login_error"}) =>
             /\ outcome.method # "linkedin"
             /\ "reason" \in DOMAIN outcome =>
                   outcome.reason \notin {"wrong_credentials", "login_error"})

C36_Witness ==
    /\ pc = "done" /\ LoginReason = "wrong_credentials"
    /\ Succeeded /\ outcome.method = "easy_apply"

\* C37: in the guided apply a submit click followed by neither a success
\* phrase nor a closed modal does not end the loop: the next iteration starts
\* on the same modal with no outcome set, and the submit and continue clicks
\* after the entry click never exceed 10.
C37_UnconfirmedSubmit ==
    /\ [][ (pc = "loop_buttons" /\ clicks' = clicks + 1 /\ lastClick' = "submit"
              /\ ~page'.success /\ page'.modal) =>
             /\ pc' = "loop"
             /\ step' = step + 1
             /\ outcome' = NoOutcome
         ]_vars
    /\ [](clicks <= MaxSteps /\ clicks <= step + 1)

\* the iteration after an unconfirmed submit has filled again and finds the
\* submit control again
C37_Witness ==
    /\ pc = "loop_buttons" /\ lastClick = "submit" /\ step >= 1
    /\ ~page.success /\ page.modal /\ page.submit /\ touched

\* C38: when the guided apply reports no_easy_apply the generic form is
\* started once, with the job's own URL or with an extracted URL that is not
\* on linkedin.com: never with a path of the job page's own site.
C38_FallbackDestination ==
    /\ Len(SelectSeq(tiers, LAMBDA t : t = "agent")) <= 1
    /\ InTiers("agent") => destUrl \in {"apply_url", "external"}

\* C39: when a run of run_pipeline without dry_run has completed and written
\* the marker, no tracker row of a job that run_application was called for in
\* that run is pending: each is applied, failed or manual_required.
C39_NoJobLeftPending ==
    (lastExit = "complete" /\ ~dry_run) =>
        \A id \in passed : \A i \in RowsOf(id) :
            tracker[i].status \in {STATUS_APPLIED, STATUS_FAILED, STATUS_MANUAL}

\* C40: in one run of run_pipeline the jobs processed never exceed
\* max_jobs_per_run, so the run makes at most max_jobs_per_run calls of
\* run_application and at most max_jobs_per_run tracker rows; a call of
\* run_application has returned before the loop goes on to the next job.
C40_PerRunCap ==
    /\ [](/\ processed <= max_jobs_per_run
          /\ TotalApplies - runBase.applies <= max_jobs_per_run
          /\ Len(tracker) - runBase.rows <= max_jobs_per_run)
    /\ [][ applyCalls' # applyCalls =>
             /\ ppc = "apply" /\ ppc' # "apply"
             /\ TotalApplies' = TotalApplies + 1
         ]_vars

\* a run that stopped at the cap with a new job left over
C40_Witness ==
    /\ lastExit = "complete" /\ ~dry_run
    /\ processed = max_jobs_per_run /\ Len(new_jobs) > processed
    /\ TotalApplies - runBase.applies = max_jobs_per_run

====
